---- MODULE Spec2Model ----
(***************************************************************************)
(* Model of S3Profile (modules/s3/s3profile.py): the profile page handler. *)
(* One request is served per step: apply_method dispatches to profile,     *)
(* which either composes the full page (row packing) or renders the one    *)
(* widget a "dl" / "aadata" request addresses.  The page title and header  *)
(* and the markup of a widget are left out: a rendered widget is the       *)
(* record of what decides it (position, counts, create link), and every    *)
(* call of the resource layer is logged with its window and filters.       *)
(***************************************************************************)
EXTENDS Integers, Sequences, FiniteSets, TLC

VARIABLES
    widgets,    \* s3db.get_config(tablename, "profile_widgets")
    current,    \* current.response.s3 settings and the permission check's answer
    db,         \* the records of the widgets' target resource
    r,          \* the S3Request being served
    output,     \* what apply_method returned (or the exception it raised)
    calls,      \* collaborator calls made while serving r, in order
    attr,       \* the controller attributes handed to apply_method (**attr)
    last        \* the request and the response of the page-load before

vars == <<widgets, current, db, r, output, calls, attr, last>>

----------------------------------------------------------------------------
(* Bounds of the model *)

MaxWidgets == 3
MaxPageSize == 1
MaxParam == 1
MaxPathLen == 3

----------------------------------------------------------------------------
(* Python values: None, str (a sequence of characters) and int *)

PyNone == [t |-> "None", s |-> <<>>, n |-> 0]
PyStr(str) == [t |-> "Str", s |-> str, n |-> 0]
PyInt(i) == [t |-> "Int", s |-> <<>>, n |-> i]

\* bool(v)
Truthy(v) ==
    CASE v.t = "None" -> FALSE
      [] v.t = "Str" -> v.s # <<>>
      [] v.t = "Int" -> v.n # 0

DigitChars == <<"0", "1", "2", "3", "4", "5", "6", "7", "8", "9">>

DigitValue(c) == (CHOOSE i \in 1..Len(DigitChars) : DigitChars[i] = c) - 1

IsDigits(str) ==
    /\ str # <<>>
    /\ \A i \in 1..Len(str) : \E d \in 1..Len(DigitChars) : DigitChars[d] = str[i]

RECURSIVE DigitsValue(_)
DigitsValue(str) ==
    IF str = <<>> THEN 0
    ELSE 10 * DigitsValue(SubSeq(str, 1, Len(str) - 1)) + DigitValue(str[Len(str)])

\* int(v): [exc, n]
PyIntOf(v) ==
    CASE v.t = "Int" -> [exc |-> "", n |-> v.n]
      [] v.t = "None" -> [exc |-> "TypeError", n |-> 0]
      [] v.t = "Str" ->
            IF IsDigits(v.s) THEN [exc |-> "", n |-> DigitsValue(v.s)]
            ELSE IF Len(v.s) > 1 /\ v.s[1] = "-" /\ IsDigits(Tail(v.s))
                 THEN [exc |-> "", n |-> 0 - DigitsValue(Tail(v.s))]
                 ELSE [exc |-> "ValueError", n |-> 0]

\* "%s" % i for a non-negative integer
RECURSIVE DecStr(_)
DecStr(i) ==
    IF i < 10 THEN <<DigitChars[i + 1]>>
    ELSE DecStr(i \div 10) \o <<DigitChars[(i % 10) + 1]>>

LowerChar(c) ==
    CASE c = "N" -> "n"
      [] c = "O" -> "o"
      [] c = "E" -> "e"
      [] c = "X" -> "x"
      [] OTHER -> c

\* str.lower()
Lower(str) == [i \in 1..Len(str) |-> LowerChar(str[i])]

\* str.replace(old, new) for single characters
Replace(str, old, new) == [i \in 1..Len(str) |-> IF str[i] = old THEN new ELSE str[i]]

\* str.split(sep) for a single-character separator
RECURSIVE Split(_, _)
Split(str, sep) ==
    IF \A i \in 1..Len(str) : str[i] # sep THEN <<str>>
    ELSE LET k == CHOOSE i \in 1..Len(str) :
                      str[i] = sep /\ \A j \in 1..(i - 1) : str[j] # sep
         IN <<SubSeq(str, 1, k - 1)>> \o Split(SubSeq(str, k + 1, Len(str)), sep)

\* sep.join(parts)
RECURSIVE Join(_, _)
Join(parts, sep) ==
    IF parts = <<>> THEN <<>>
    ELSE IF Len(parts) = 1 THEN parts[1]
    ELSE parts[1] \o <<sep>> \o Join(Tail(parts), sep)

----------------------------------------------------------------------------
(* Filters and the target resource *)

\* A key the widget dict does not hold (numeric options); no record id
Unset == -1

NoFilter == [op |-> "none", sel |-> "", pats |-> <<>>, id |-> 0]

\* The value of the "(location)$path" field: the ancestor chain of the
\* record's location, ids joined by "/"
PathStr(path) == Join([i \in 1..Len(path) |-> DecStr(path[i])], "/")

\* SQL LIKE with "%" as the wildcard
RECURSIVE Like(_, _)
Like(str, pat) ==
    IF pat = <<>> THEN str = <<>>
    ELSE IF Head(pat) = "%"
         THEN Like(str, Tail(pat)) \/ (str # <<>> /\ Like(Tail(str), pat))
         ELSE str # <<>> /\ Head(str) = Head(pat) /\ Like(Tail(str), Tail(pat))

\* Does the record satisfy the filter: S3FieldSelector(s) == id compares the
\* referenced id, S3FieldSelector(s).like([...]) is true when any pattern matches
Matches(filter, rec) ==
    CASE filter.op = "none" -> TRUE
      [] filter.op = "eq" ->
            IF filter.sel = "id" THEN rec.id = filter.id ELSE rec.link = filter.id
      [] filter.op = "like" ->
            \E i \in 1..Len(filter.pats) : Like(PathStr(rec.path), filter.pats[i])
      [] filter.op = "search" -> rec.name = filter.sel

\* The patterns of the location context, with the "," of the last pattern
\* dropped: a pattern list that misses "*/id"
LocationPatternsNoTail(id) ==
    LET ids == DecStr(id)
        m == Split(ids \o <<",">> \o ids \o <<"/", "*", ",">>
                   \o <<"*", "/">> \o ids \o <<"/", "*">>, ",")
    IN [i \in 1..Len(m) |-> Replace(m[i], "*", "%")]

\* m = ("%(id)s,%(id)s/*,*/%(id)s/*,*/%(id)s" % dict(id=id)).split(",")
\* m = [f.replace("*", "%") for f in m]
LocationPatterns(id) ==
    LET ids == DecStr(id)
        m == Split(ids \o <<",">> \o ids \o <<"/", "*", ",">>
                   \o <<"*", "/">> \o ids \o <<"/", "*", ",">>
                   \o <<"*", "/">> \o ids, ",")
    IN [i \in 1..Len(m) |-> Replace(m[i], "*", "%")]

\* s = "(%s)" % context, for the contexts of the model
ContextSelector(context) ==
    CASE context = "organisation" -> "(organisation)"
      [] context = "site" -> "(site)"

\* S3Profile._resolve_context(context, id)
ResolveContext(context, id) ==
    IF context = "location"
    THEN [op |-> "like", sel |-> "(location)$path", pats |-> LocationPatterns(id), id |-> 0]
    ELSE [op |-> "eq", sel |-> ContextSelector(context), pats |-> <<>>, id |-> id]

\* context = widget.get("context", None); if context: context = _resolve_context(...)
WidgetContext(req, widget) ==
    IF widget.context # "" THEN ResolveContext(widget.context, req.id) ELSE NoFilter

\* S3FieldSelector("id") == record_id, for the value of a request parameter
RecordFilter(record_id) ==
    [op |-> "eq", sel |-> "id", pats |-> <<>>,
     id |-> IF PyIntOf(record_id).exc = "" THEN PyIntOf(record_id).n ELSE Unset]

\* The ids of the records a resource with these filters selects
Select(data, filters) ==
    {rec.id : rec \in {x \in data : \A i \in 1..Len(filters) : Matches(filters[i], x)}}

----------------------------------------------------------------------------
(* Widgets, requests and what a renderer returns *)

\* widget.get(key, default) for a numeric option
WidgetGet(value, default) == IF value = Unset THEN default ELSE value

\* "profile-list-%s-%s" % (tablename, widget["index"])
ListId(widget) == <<"profile-list", "-", widget.tablename, "-">> \o DecStr(widget.index)

\* r.interactive: the representation is one of the interactive formats
Interactive(req) == req.representation = "html"

\* r.url(vars={"update": widget["index"]}, representation=...): the URL of
\* the widget's Ajax requests, as its "update" variable and its format
AjaxUrl(widget, representation) ==
    [update |-> DecStr(widget.index), representation |-> representation]

NoUrl == [update |-> <<>>, representation |-> ""]

\* A rendered widget, fragment or payload
Rendered(kind, widget) ==
    [kind |-> kind, index |-> widget.index, type |-> widget.type,
     more |-> 0, create |-> "", total |-> 0, display |-> 0, echo |-> 0,
     ids |-> {}, vars |-> {}, actions |-> <<>>,
     listid |-> <<>>, ajax |-> NoUrl, layers |-> <<>>]

\* A call of a collaborator (resource query, delete, permission check)
Call(op, widget, start, limit, context, ids) ==
    [op |-> op, index |-> widget.index, start |-> start, limit |-> limit,
     context |-> context, ids |-> ids]

\* What a renderer hands back: the exception it raised ("" when none), the
\* rendered widget and the collaborator calls it made
Raised(exc, widget, made) == [exc |-> exc, w |-> Rendered("", widget), calls |-> made]
Returned(w, made) == [exc |-> "", w |-> w, calls |-> made]

----------------------------------------------------------------------------
(* S3Profile._create_popup *)

\* The dict of URL query variables (vars) is a set of [k, v] with distinct k.
\* vars[k] = v
DictSet(urlvars, k, v) == {e \in urlvars : e.k # k} \cup {[k |-> k, v |-> v]}

\* for f in filters: vars[f] = filters[f]
DictUpdate(urlvars, filters) ==
    {e \in urlvars : \A f \in filters : f.k # e.k} \cup filters

\* filter.serialize_url(resource): the URL query variables of a filter
SerializeUrl(filter) ==
    CASE filter.op = "eq" -> {[k |-> <<filter.sel>>, v |-> DecStr(filter.id)]}
      [] filter.op = "like" ->
            {[k |-> <<filter.sel, "__like">>, v |-> Join(filter.pats, ",")]}
      [] OTHER -> {}

\* str.split(sep, 1)
SplitOnce(str, sep) ==
    IF \A i \in 1..Len(str) : str[i] # sep THEN <<str>>
    ELSE LET k == CHOOSE i \in 1..Len(str) :
                      str[i] = sep /\ \A j \in 1..(i - 1) : str[j] # sep
         IN <<SubSeq(str, 1, k - 1), SubSeq(str, k + 1, Len(str))>>

\* widget_filter = widget.get(filter): the key is the builtin function
\* filter, not "filter", and no widget has that key: None
PopupWidgetFilter(widget) == NoFilter

\* The widget filter's variables, then the context's
PopupFilters(widget, context) ==
    DictUpdate(SerializeUrl(PopupWidgetFilter(widget)), SerializeUrl(context))

\* The list ID written before the widget default
PopupVarsRefreshFirst(filters, default, listid) ==
    IF default # <<>>
    THEN DictSet(DictSet(filters, <<"refresh">>, listid),
                 SplitOnce(default, "=")[1], SplitOnce(default, "=")[2])
    ELSE DictSet(filters, <<"refresh">>, listid)

\* k, v = default.split("=", 1); vars[k] = v; vars.refresh = listid
PopupVars(filters, default, listid) ==
    DictSet(IF default # <<>>
            THEN DictSet(filters, SplitOnce(default, "=")[1], SplitOnce(default, "=")[2])
            ELSE filters,
            <<"refresh">>, listid)

Popup(exc, create, urlvars) == [exc |-> exc, create |-> create, vars |-> urlvars]

\* The create-popup link without the permission check
CreatePopupUnchecked(req, widget, cur, context, numrows) ==
    IF widget.insert
    THEN IF widget.default # <<>> /\ Len(SplitOnce(widget.default, "=")) < 2
         THEN Popup("ValueError", "", {})
         ELSE IF widget.type = "datalist" /\ ~widget.multiple
         THEN Popup("NameError", IF numrows # 0 THEN "hidden" ELSE "visible",
                    PopupVars(PopupFilters(widget, context), widget.default,
                              ListId(widget)))
         ELSE Popup("", "link",
                    PopupVars(PopupFilters(widget, context), widget.default,
                              ListId(widget)))
    ELSE Popup("", "", {})

CreatePopup(req, widget, cur, context, numrows) ==
    IF widget.insert /\ cur.permit_create
    THEN IF widget.default # <<>> /\ Len(SplitOnce(widget.default, "=")) < 2
         THEN \* k, v = default.split("=", 1) with one part only
              Popup("ValueError", "", {})
         ELSE IF widget.type = "datalist" /\ ~widget.multiple
         THEN \* create.update(_style=...) and then
              \* s3.jquery_ready.append(script): s3 is no name of this scope
              Popup("NameError", IF numrows # 0 THEN "hidden" ELSE "visible",
                    PopupVars(PopupFilters(widget, context), widget.default,
                              ListId(widget)))
         ELSE Popup("", "link",
                    PopupVars(PopupFilters(widget, context), widget.default,
                              ListId(widget)))
    ELSE Popup("", "", {})

----------------------------------------------------------------------------
(* S3Profile._datalist *)

Window(start, limit) == [exc |-> "", start |-> start, limit |-> limit]
WindowError(exc) == [exc |-> exc, start |-> PyNone, limit |-> PyNone]

\* The except-branch of the list pagination falling back to (None, None)
DatalistFallbackNone(pagesize) == Window(PyNone, PyNone)

\* except ValueError: start, limit = 0, pagesize
DatalistFallback(pagesize) == Window(PyInt(0), PyInt(pagesize))

\* The no-limit branch defaulting to the first page
DatalistNoLimitFirstPage(limit, pagesize) == Window(PyInt(0), PyInt(pagesize))

\* else: start = None (limit is None already)
DatalistNoLimit(limit, pagesize) == Window(PyNone, limit)

\* Page size and pagination of _datalist
DatalistWindow(req, widget) ==
    LET pagesize == WidgetGet(widget.pagesize, 4)
        get_vars == req.get_vars
    IN IF req.representation = "dl"
       THEN IF get_vars.record.t # "None"
            THEN Window(PyInt(0), PyInt(1))
            ELSE IF get_vars.limit.t # "None"
                 THEN LET start == PyIntOf(get_vars.start)
                          limit == PyIntOf(get_vars.limit)
                      IN IF start.exc = "TypeError" THEN WindowError("TypeError")
                         ELSE IF start.exc = "ValueError" THEN DatalistFallback(pagesize)
                         ELSE IF limit.exc = "TypeError" THEN WindowError("TypeError")
                         ELSE IF limit.exc = "ValueError" THEN DatalistFallback(pagesize)
                         ELSE Window(PyInt(start.n), PyInt(limit.n))
                 ELSE DatalistNoLimit(get_vars.limit, pagesize)
       ELSE Window(PyInt(0), PyInt(pagesize))

\* The filters of a single-record update without the context and the
\* widget's filter
DatalistFiltersRecordOnly(req, widget, context) ==
    IF req.representation = "dl" /\ req.get_vars.record.t # "None"
    THEN <<RecordFilter(req.get_vars.record)>>
    ELSE <<context, widget.filter>>

\* The resource's filters: the context, the widget's filter, and the record
\* of a single-record update
DatalistFilters(req, widget, context) ==
    <<context, widget.filter>> \o (IF req.representation = "dl" /\ req.get_vars.record.t # "None"
                                    THEN <<RecordFilter(req.get_vars.record)>>
                                    ELSE <<>>)

\* The interactive part of _datalist: the "see more" button, the create-popup
\* link and the widget
DatalistWidget(widget, pagesize, numrows, ids, query, create_popup) ==
    IF create_popup.exc # ""
    THEN Raised(create_popup.exc, widget,
                <<query, Call("permission", widget, PyNone, PyNone, NoFilter, {})>>)
    ELSE Returned([Rendered("datalist", widget) EXCEPT
                      !.more = IF pagesize # 0 /\ numrows > pagesize
                               THEN numrows - pagesize ELSE 0,
                      !.create = create_popup.create,
                      !.vars = create_popup.vars,
                      !.total = numrows,
                      !.ids = ids,
                      !.listid = ListId(widget),
                      !.ajax = AjaxUrl(widget, "dl")],
                  <<query>> \o (IF widget.insert
                                THEN <<Call("permission", widget, PyNone, PyNone,
                                            NoFilter, {})>>
                                ELSE <<>>))

\* _datalist from "Ajax-delete items?" on
DatalistRender(req, widget, cur, context, window, ids) ==
    IF window.exc # "" THEN Raised(window.exc, widget, <<>>)
    ELSE IF req.representation = "dl" /\ req.http \in {"DELETE", "POST"}
    THEN IF req.get_vars.delete.t # "None"
         THEN Returned(Rendered("deleted", widget),
                       <<Call("delete", widget, PyNone, PyNone, context, ids)>>)
         ELSE Raised("HTTP405", widget, <<>>)
    ELSE IF req.representation = "dl"
    THEN Returned([Rendered("datalist-data", widget) EXCEPT
                      !.ids = ids,
                      !.listid = ListId(widget),
                      !.ajax = AjaxUrl(widget, "dl")],
                  <<Call("datalist", widget, window.start, window.limit, context, ids)>>)
    ELSE DatalistWidget(widget, WidgetGet(widget.pagesize, 4), Cardinality(ids), ids,
                        Call("datalist", widget, window.start, window.limit, context, ids),
                        CreatePopup(req, widget, cur, context, Cardinality(ids)))

DatalistQuery(req, widget, cur, data, context) ==
    DatalistRender(req, widget, cur, context, DatalistWindow(req, widget),
                   Select(data, DatalistFilters(req, widget, context)))

Datalist(req, widget, cur, data) ==
    DatalistQuery(req, widget, cur, data, WidgetContext(req, widget))

----------------------------------------------------------------------------
(* S3Profile._datatable *)

\* The dtargs dict: of its keys, dt_pagination, dt_displayLength, dt_base_url
\* and dt_ajax_url are written by every interactive call before they are
\* read; dt_row_actions is written only for a widget with actions (<<>>
\* stands for the key not being there)
NoDtargs == [dt_row_actions |-> <<>>]

\* Controller attributes without / with a "dtargs" dict
NoAttr == [has_dtargs |-> FALSE, dtargs |-> NoDtargs]
AttrWith(dtargs) == [has_dtargs |-> TRUE, dtargs |-> dtargs]

\* dtargs = attr.get("dtargs", {})
DtargsOf(at) == IF at.has_dtargs THEN at.dtargs ELSE NoDtargs

\* actions = widget.get("actions"); if actions: dtargs["dt_row_actions"] = actions
RowActions(widget, dtargs) ==
    IF widget.actions # <<>> THEN widget.actions ELSE dtargs.dt_row_actions

\* if not s3.no_sspag: if not limit: limit = 2 * display_length
GridQueryLimit(limit, cur, display_length) ==
    IF ~cur.no_sspag /\ ~Truthy(limit) THEN PyInt(2 * display_length) ELSE limit

\* if s3.dataTable_iDisplayLength: ... else: widget.get("pagesize", 10);
\* if not display_length: display_length = 10
DisplayLength(widget, cur) ==
    LET display_length == IF cur.dataTable_iDisplayLength # 0
                          THEN cur.dataTable_iDisplayLength
                          ELSE WidgetGet(widget.pagesize, 10)
    IN IF display_length = 0 THEN 10 ELSE display_length

\* Pagination of _datatable, up to "dtargs = ..."
DatatableWindow(req, widget) ==
    LET get_vars == req.get_vars
        absent0(v) == IF v.t = "None" THEN PyInt(0) ELSE v
        start == IF req.representation = "aadata"
                 THEN get_vars.iDisplayStart ELSE get_vars.start
        limit == IF req.representation = "aadata"
                 THEN absent0(get_vars.iDisplayLength) ELSE absent0(get_vars.limit)
    IN IF Truthy(limit)
       THEN IF Lower(limit.s) = <<"n", "o", "n", "e">>
            THEN Window(start, PyNone)
            ELSE LET s == PyIntOf(start)
                     l == PyIntOf(limit)
                 IN IF s.exc = "TypeError" THEN WindowError("TypeError")
                    ELSE IF s.exc = "ValueError" THEN Window(PyNone, PyInt(0))
                    ELSE IF l.exc = "ValueError" THEN Window(PyNone, PyInt(0))
                    ELSE Window(PyInt(s.n), PyInt(l.n))
       ELSE Window(PyNone, limit)

\* resource.datatable_filter(list_fields, get_vars): the search query, if any
SearchFilter(get_vars) ==
    IF Truthy(get_vars.sSearch)
    THEN [op |-> "search", sel |-> get_vars.sSearch.s, pats |-> <<>>, id |-> 0]
    ELSE NoFilter

\* The interactive branch of _datatable after the query
DatatableWidget(widget, totalrows, ids, query, create_popup, row_actions) ==
    IF create_popup.exc # ""
    THEN Raised(create_popup.exc, widget, <<query>>)
    ELSE Returned([Rendered("datatable", widget) EXCEPT
                      !.create = create_popup.create,
                      !.vars = create_popup.vars,
                      !.actions = row_actions,
                      !.total = totalrows,
                      !.display = totalrows,
                      !.ids = ids,
                      !.listid = ListId(widget),
                      !.ajax = AjaxUrl(widget, "aadata")],
                  <<query>> \o (IF widget.insert
                                THEN <<Call("permission", widget, PyNone, PyNone,
                                            NoFilter, {})>>
                                ELSE <<>>))

\* The total count taken after the search filter was added
TotalRowsAfterSearch(counted, displayrows) == displayrows

\* if totalrows is None: totalrows = displayrows.  counted is resource.count()
\* before resource.add_filter(searchq), Unset (None) without a search query
TotalRows(counted, displayrows) == IF counted = Unset THEN displayrows ELSE counted

\* The aadata branch of _datatable after the count: the query, the echo and
\* the JSON.  counted is the count before the search filter, Unset without one
DatatableJson(widget, window, context, ids, counted, found, sEcho) ==
    IF sEcho.exc # ""
    THEN Raised(sEcho.exc, widget,
                (IF counted # Unset
                 THEN <<Call("count", widget, PyNone, PyNone, context, ids)>>
                 ELSE <<>>)
                \o (IF counted # 0
                    THEN <<Call("datatable", widget, window.start, window.limit,
                                context, found)>>
                    ELSE <<>>))
    ELSE Returned([Rendered("json", widget) EXCEPT
                      !.total = TotalRows(counted, IF counted # 0 THEN Cardinality(found) ELSE 0),
                      !.display = IF counted # 0 THEN Cardinality(found) ELSE 0,
                      !.echo = sEcho.n,
                      !.ids = IF counted # 0 THEN found ELSE {},
                      !.listid = ListId(widget)],
                  (IF counted # Unset
                   THEN <<Call("count", widget, PyNone, PyNone, context, ids)>>
                   ELSE <<>>)
                  \o (IF counted # 0
                      THEN <<Call("datatable", widget, window.start, window.limit,
                                  context, found)>>
                      ELSE <<>>))

\* _datatable from "dtargs = ..." on
DatatableRender(req, widget, cur, data, at, context, window, ids) ==
    IF window.exc # "" THEN Raised(window.exc, widget, <<>>)
    ELSE IF Interactive(req)
    THEN DatatableWidget(widget, Cardinality(ids), ids,
                         Call("datatable", widget, window.start,
                              GridQueryLimit(window.limit, cur,
                                             DisplayLength(widget, cur)),
                              context, ids),
                         CreatePopup(req, widget, cur, context, Cardinality(ids)),
                         RowActions(widget, DtargsOf(at)))
    ELSE IF req.representation = "aadata"
    THEN DatatableJson(widget, window, context, ids,
                       IF SearchFilter(req.get_vars).op # "none"
                       THEN Cardinality(ids) ELSE Unset,
                       Select(data, <<context, widget.filter, SearchFilter(req.get_vars)>>),
                       PyIntOf(IF Truthy(req.get_vars.sEcho)
                               THEN req.get_vars.sEcho ELSE PyInt(0)))
    ELSE Raised("HTTP501", widget, <<>>)

DatatableQuery(req, widget, cur, data, at, context) ==
    DatatableRender(req, widget, cur, data, at, context, DatatableWindow(req, widget),
                    Select(data, <<context, widget.filter>>))

Datatable(req, widget, cur, data, at) ==
    DatatableQuery(req, widget, cur, data, at, WidgetContext(req, widget))

\* The controller attributes after _datatable: the interactive branch writes
\* into the dtargs dict of attr, if attr has one
DatatableAttr(req, widget, at) ==
    IF at.has_dtargs /\ Interactive(req) /\ DatatableWindow(req, widget).exc = ""
    THEN AttrWith([dt_row_actions |-> RowActions(widget, at.dtargs)])
    ELSE at

----------------------------------------------------------------------------
(* The widgets without a listing: _comments, _form, _map *)

Comments(req, widget, cur, data) == Returned(Rendered("comments", widget), <<>>)

\* resource.select(["id"], limit=1) and the permission check of the form
Form(req, widget, cur, data) ==
    Returned(Rendered("form", widget),
             <<Call("select", widget, PyNone, PyInt(1), WidgetContext(req, widget),
                    Select(data, <<WidgetContext(req, widget)>>)),
               Call("permission", widget, PyNone, PyNone, NoFilter, {})>>)

\* The layer id without the widget's index
MapLayerIdOfTable(widget) == <<"profile-list", "-", widget.tablename>>

\* listid = "profile-list-%s-%s" % (tablename, widget["index"]) of _map
MapLayerId(widget) ==
    <<"profile-list", "-">> \o <<widget.tablename>> \o <<"-">> \o DecStr(widget.index)

\* layer = dict(name=T(widget["label"]), id=listid, active=True, ...);
\* layer["tablename"] = tablename.  index names the widget the layer is of
MapLayer(widget) ==
    [name |-> widget.label.s, id |-> MapLayerId(widget),
     tablename |-> widget.tablename, index |-> widget.index]

\* The widget is one _map builds a layer of
OnMap(widget) == widget.type = "datalist" /\ widget.show_on_map

\* The layers of every widget with a listing, datatables included
RECURSIVE MapLayersOfListings(_, _)
MapLayersOfListings(all, i) ==
    IF i > Len(all) THEN <<>>
    ELSE (IF all[i].type \in {"datalist", "datatable"} /\ all[i].show_on_map
          THEN <<MapLayer(all[i])>> ELSE <<>>) \o MapLayersOfListings(all, i + 1)

\* for widget in widgets: skip what is no datalist, skip show_on_map false,
\* fappend(layer): feature_resources of the widgets from position i on
RECURSIVE MapLayers(_, _)
MapLayers(all, i) ==
    IF i > Len(all) THEN <<>>
    ELSE (IF all[i].type = "datalist" /\ all[i].show_on_map
          THEN <<MapLayer(all[i])>> ELSE <<>>) \o MapLayers(all, i + 1)

\* One layer for each datalist widget of the page that is shown on the map;
\* widget["label"] of such a widget without a label is a KeyError
Map(req, widget, cur, data, all) ==
    LET shown == {i \in 1..Len(all) : OnMap(all[i])}
    IN IF \E i \in shown : all[i].label = PyNone
       THEN Raised("KeyError", widget, <<>>)
       ELSE Returned([Rendered("map", widget) EXCEPT
                         !.ids = {all[i].index : i \in shown},
                         !.layers = MapLayers(all, 1)],
                     <<>>)

----------------------------------------------------------------------------
(* S3Profile.profile *)

\* datalist = ""
EmptyItem ==
    [kind |-> "empty", index |-> Unset, type |-> "",
     more |-> 0, create |-> "", total |-> 0, display |-> 0, echo |-> 0, ids |-> {},
     vars |-> {}, actions |-> <<>>,
     listid |-> <<>>, ajax |-> NoUrl, layers |-> <<>>]

NoItem == [EmptyItem EXCEPT !.kind = ""]

\* The widgets indexed by position, counted from 1
IndexedFromOne(ws) == [i \in 1..Len(ws) |-> [ws[i] EXCEPT !.index = i]]

\* for index, widget in enumerate(widgets): widget["index"] = index
Indexed(ws) == [i \in 1..Len(ws) |-> [ws[i] EXCEPT !.index = i - 1]]

\* The widget types profile() has a renderer for
KnownTypes == {"comments", "datalist", "datatable", "form", "map"}

\* Render the widget
RenderWidget(req, widget, cur, data, all, at) ==
    CASE widget.type = "comments" -> Comments(req, widget, cur, data)
      [] widget.type = "datalist" -> Datalist(req, widget, cur, data)
      [] widget.type = "datatable" -> Datatable(req, widget, cur, data, at)
      [] widget.type = "form" -> Form(req, widget, cur, data)
      [] widget.type = "map" -> Map(req, widget, cur, data, all)

\* Row packing that appends a colspan-2 widget to the open row
PackWidgetNoClose(acc, w, colspan) ==
    LET appended == Append(acc.row, w)
    IN IF colspan > 1 \/ Len(appended) > 1
       THEN [acc EXCEPT !.rows = Append(acc.rows, appended), !.row = <<>>]
       ELSE [acc EXCEPT !.row = appended]

\* One turn of the page-load loop after the widget is rendered: close the
\* previous row for a wide widget, start a row if none is open, append the
\* widget, close the row when it is full.  row = <<>> stands for row = None
PackWidget(acc, w, colspan) ==
    LET closed == IF colspan > 1 /\ acc.row # <<>>
                  THEN [acc EXCEPT !.rows = Append(acc.rows, acc.row), !.row = <<>>]
                  ELSE acc
        appended == Append(closed.row, w)
    IN IF colspan > 1 \/ Len(appended) > 1
       THEN [closed EXCEPT !.rows = Append(closed.rows, appended), !.row = <<>>]
       ELSE [closed EXCEPT !.row = appended]

\* The controller attributes after the widget's renderer ran
WidgetAttr(req, widget, at) ==
    IF widget.type = "datatable" THEN DatatableAttr(req, widget, at) ELSE at

\* One turn of the page-load loop, res being what the renderer handed back
PageTurn(acc, res, colspan) ==
    IF res.exc # ""
    THEN [acc EXCEPT !.calls = acc.calls \o res.calls, !.exc = res.exc]
    ELSE PackWidget([acc EXCEPT !.calls = acc.calls \o res.calls], res.w, colspan)

\* The default page-load loop over widgets[i..]; an unknown type raises in
\* debug mode and is skipped otherwise
RECURSIVE PageLoop(_, _, _, _, _, _)
PageLoop(req, all, cur, data, i, acc) ==
    IF i > Len(all) \/ acc.exc # "" THEN acc
    ELSE IF all[i].type \in KnownTypes
    THEN PageLoop(req, all, cur, data, i + 1,
                  PageTurn([acc EXCEPT !.attr = WidgetAttr(req, all[i], acc.attr)],
                           RenderWidget(req, all[i], cur, data, all, acc.attr),
                           all[i].colspan))
    ELSE IF cur.debug
    THEN [acc EXCEPT !.exc = "SyntaxError"]
    ELSE PageLoop(req, all, cur, data, i + 1, acc)

\* widgets[index] of a Python list: negative indices count from the end
ListItem(all, index) ==
    IF index >= 0 /\ index < Len(all) THEN <<all[index + 1]>>
    ELSE IF index < 0 /\ index >= 0 - Len(all) THEN <<all[Len(all) + index + 1]>>
    ELSE <<>>

Failed(exc, made) ==
    [status |-> "error", exc |-> exc, kind |-> "", rows |-> <<>>, item |-> NoItem,
     calls |-> made]

Page(rows, made) ==
    [status |-> "ok", exc |-> "", kind |-> "page", rows |-> rows, item |-> NoItem,
     calls |-> made]

Fragment(kind, item, made) ==
    [status |-> "ok", exc |-> "", kind |-> kind, rows |-> <<>>, item |-> item,
     calls |-> made]

\* self._datalist(r, widgets[index]) / self._datatable(r, widgets[index])
RenderAddressed(req, picked, cur, data, at) ==
    IF picked = <<>> THEN Raised("IndexError", [index |-> Unset, type |-> ""], <<>>)
    ELSE IF req.representation = "dl" THEN Datalist(req, picked[1], cur, data)
    ELSE Datatable(req, picked[1], cur, data, at)

AddressedOutput(req, res) ==
    IF res.exc # "" THEN Failed(res.exc, res.calls)
    ELSE Fragment(IF req.representation = "dl" THEN "item" ELSE "aadata",
                  res.w, res.calls)

\* index = int(index), and what follows it
AddressedIndex(req, all, cur, data, at, parsed) ==
    IF parsed.exc = "ValueError"
    THEN \* datalist = "": the name the aadata branch returns is datatable,
         \* which is still unbound
         IF req.representation = "dl" THEN Fragment("item", EmptyItem, <<>>)
         ELSE Failed("UnboundLocalError", <<>>)
    ELSE AddressedOutput(req, RenderAddressed(req, ListItem(all, parsed.n), cur, data, at))

\* The representation == "dl" / "aadata" branches of profile(): the one
\* widget addressed by get_vars "update"
Addressed(req, all, cur, data, at) ==
    IF Truthy(req.get_vars.update)
    THEN AddressedIndex(req, all, cur, data, at, PyIntOf(req.get_vars.update))
    ELSE \* neither datalist nor datatable was assigned
         Failed("UnboundLocalError", <<>>)

PageOutput(acc) ==
    IF acc.exc # "" THEN Failed(acc.exc, acc.calls) ELSE Page(acc.rows, acc.calls)

\* The page-load loop starts: rows = [], row = None
PageStart(at) == [rows |-> <<>>, row |-> <<>>, calls |-> <<>>, exc |-> "", attr |-> at]

Profile(req, ws, cur, data, at) ==
    IF ws # <<>>
    THEN IF req.representation \in {"dl", "aadata"}
         THEN Addressed(req, Indexed(ws), cur, data, at)
         ELSE PageOutput(PageLoop(req, Indexed(ws), cur, data, 1, PageStart(at)))
    ELSE Page(<<>>, <<>>)

\* The controller attributes after profile(): the renderers of the page-load
\* loop share attr's values
ProfileAttr(req, ws, cur, data, at) ==
    IF ws # <<>> /\ req.representation \notin {"dl", "aadata"}
    THEN PageLoop(req, Indexed(ws), cur, data, 1, PageStart(at)).attr
    ELSE at

----------------------------------------------------------------------------
(* S3Profile.apply_method *)

\* The entry point without the test of the HTTP method
ApplyMethodOfAnyMethod(req, ws, cur, data, at) ==
    IF req.record
    THEN Profile(req, ws, cur, data, at)
    ELSE [Failed("", <<>>) EXCEPT !.status = "redirect"]

ApplyMethod(req, ws, cur, data, at) ==
    IF req.http \in {"GET", "POST", "DELETE"}
    THEN IF req.record
         THEN Profile(req, ws, cur, data, at)
         ELSE [Failed("", <<>>) EXCEPT !.status = "redirect"]
    ELSE Failed("HTTP405", <<>>)

----------------------------------------------------------------------------
(* Requests *)

NoVars ==
    [update |-> PyNone, start |-> PyNone, limit |-> PyNone, record |-> PyNone,
     delete |-> PyNone, iDisplayStart |-> PyNone, iDisplayLength |-> PyNone,
     sEcho |-> PyNone, sSearch |-> PyNone]

Request(http, record, id, representation, get_vars) ==
    [http |-> http, record |-> record, id |-> id,
     representation |-> representation, get_vars |-> get_vars]

NoRequest == Request("", FALSE, 0, "", NoVars)

NoOutput ==
    [status |-> "", exc |-> "", kind |-> "", rows |-> <<>>, item |-> NoItem]

\* A widget of the config; label PyNone stands for a dict without "label"
Widget(type, colspan, pagesize, context) ==
    [type |-> type, tablename |-> "org_resource", colspan |-> colspan,
     pagesize |-> pagesize, context |-> context, filter |-> NoFilter,
     default |-> <<>>, actions |-> <<>>, insert |-> TRUE, multiple |-> TRUE,
     show_on_map |-> TRUE, label |-> PyStr(<<"Resources">>), index |-> Unset]

NoLast == [r |-> NoRequest, output |-> NoOutput]

\* The state after apply_method returned out, at being what it left of attr
Served(req, out, at) ==
    /\ output' = [status |-> out.status, exc |-> out.exc, kind |-> out.kind,
                  rows |-> out.rows, item |-> out.item]
    /\ calls' = out.calls
    /\ r' = req
    /\ widgets' = IF req.http \in {"GET", "POST", "DELETE"} /\ req.record
                  THEN Indexed(widgets) ELSE widgets
    /\ attr' = at
    /\ UNCHANGED <<current, db, last>>

\* The server serves no request
Idle == r = NoRequest

\* apply_method runs on the request; profile() has then written the index
\* into each widget of the config
Serve(req) ==
    Served(req, ApplyMethod(req, widgets, current, db, attr),
           IF req.http \in {"GET", "POST", "DELETE"} /\ req.record
           THEN ProfileAttr(req, widgets, current, db, attr) ELSE attr)

\* The response is sent; the server is ready for the next request
Respond ==
    /\ ~Idle
    /\ r' = NoRequest
    /\ output' = NoOutput
    /\ calls' = <<>>
    /\ UNCHANGED <<widgets, current, db, attr, last>>

----------------------------------------------------------------------------
(* The inputs the specifications draw from *)

Methods == {"GET", "POST", "DELETE", "PUT"}

\* Request parameter values that are no decimal number
OddStrings == {<<>>, <<"x">>, <<"n", "o", "n", "e">>, <<"N", "o", "n", "E">>}

NumericStrings == {DecStr(n) : n \in 0..MaxParam}

\* Widget positions as strings; the page of Spec has two widgets, so the
\* last one is beyond the end
IndexStrings == {DecStr(n) : n \in 0..(MaxParam + 1)}

\* A pagination parameter: absent, a number, or another string
ParamVals == {PyNone} \cup {PyStr(str) : str \in NumericStrings \cup OddStrings}

\* The widget-index parameter: absent, empty, a position, beyond the last
\* widget, negative, or no number
UpdateVals ==
    {PyNone} \cup {PyStr(str) : str \in IndexStrings \cup {<<>>, <<"x">>, <<"-", "1">>}}

PageSizes == {Unset} \cup 0..MaxPageSize

\* The echo parameter: absent, empty, a number, a number with a leading zero,
\* or no number
EchoVals == {PyNone} \cup {PyStr(str) : str \in {<<>>, <<"1">>, <<"0", "1">>, <<"x">>}}

\* The search parameter: absent, empty, the name of records, or of none
SearchVals == {PyNone} \cup {PyStr(str) : str \in {<<>>, <<"x">>, <<"z">>}}

\* Location ids: 1 and 3 are digits of 13 and 31
LocationIds == {1, 3, 5, 13, 31}

\* Ancestor chains of a location
Paths == UNION {[1..n -> LocationIds] : n \in 1..MaxPathLen}

Record(id, path, name) ==
    [id |-> id, path |-> path, link |-> path[Len(path)], name |-> name]

\* Three records of the target resource
SomeRecords ==
    {Record(1, <<1>>, <<"x">>), Record(2, <<1, 3>>, <<"y">>), Record(3, <<5>>, <<"x">>)}

Settings(debug, no_sspag, display_length, permit_create) ==
    [debug |-> debug, no_sspag |-> no_sspag,
     dataTable_iDisplayLength |-> display_length, permit_create |-> permit_create]

----------------------------------------------------------------------------------------------------------------------------------------
(* Spec: requests of every representation to a page with a list and a grid *)

Init ==
    /\ \E p \in PageSizes :
          widgets = <<Widget("datalist", 1, p, ""), Widget("datatable", 1, p, "")>>
    /\ \E no_sspag \in BOOLEAN :
          current = Settings(FALSE, no_sspag, 0, TRUE)
    /\ db \in {SomeRecords, {}}
    /\ r = NoRequest
    /\ output = NoOutput
    /\ calls = <<>>
    /\ attr = NoAttr
    /\ last = NoLast

\* apply_method for every HTTP method, with and without a target record
Dispatch ==
    \E http \in Methods, record \in BOOLEAN,
       representation \in {"html", "dl", "aadata"} :
        /\ Idle
        /\ Serve(Request(http, record, 1, representation,
                         [NoVars EXCEPT !.update = PyStr(<<"0">>)]))

\* A default page-load
PageLoad ==
    \E start \in ParamVals, limit \in ParamVals :
        /\ Idle
        /\ Serve(Request("GET", TRUE, 1, "html",
                         [NoVars EXCEPT !.start = start, !.limit = limit]))

\* An Ajax-update of one datalist
ListUpdate ==
    \E update \in UpdateVals, start \in ParamVals, limit \in ParamVals,
       record \in {PyNone, PyStr(<<"1">>)} :
        /\ Idle
        /\ Serve(Request("GET", TRUE, 1, "dl",
                         [NoVars EXCEPT !.update = update, !.start = start,
                                        !.limit = limit, !.record = record]))

\* An Ajax-delete sent to a datalist
ListDelete ==
    \E http \in {"POST", "DELETE"}, update \in {PyStr(<<"0">>), PyStr(<<"1">>)},
       limit \in {PyNone, PyStr(<<"1">>)}, delete \in {PyNone, PyStr(<<"1">>)} :
        /\ Idle
        /\ Serve(Request(http, TRUE, 1, "dl",
                         [NoVars EXCEPT !.update = update, !.limit = limit,
                                        !.delete = delete]))

\* An Ajax data pull of one datatable
GridUpdate ==
    \E update \in UpdateVals, start \in ParamVals, limit \in ParamVals :
        /\ Idle
        /\ Serve(Request("GET", TRUE, 1, "aadata",
                         [NoVars EXCEPT !.update = update, !.iDisplayStart = start,
                                        !.iDisplayLength = limit,
                                        !.sEcho = PyStr(<<"1">>)]))

\* An Ajax data pull with a search and an echo
GridSearch ==
    \E update \in {PyStr(<<"0">>), PyStr(<<"1">>)}, limit \in {PyNone, PyStr(<<"1">>)},
       sEcho \in EchoVals, sSearch \in SearchVals :
        /\ Idle
        /\ Serve(Request("GET", TRUE, 1, "aadata",
                         [NoVars EXCEPT !.update = update,
                                        !.iDisplayStart = PyStr(<<"0">>),
                                        !.iDisplayLength = limit,
                                        !.sEcho = sEcho, !.sSearch = sSearch]))

\* An Ajax-delete sent to a datatable
GridDelete ==
    \E http \in {"POST", "DELETE"}, update \in {PyStr(<<"0">>), PyStr(<<"1">>)},
       limit \in {PyNone, PyStr(<<"1">>)} :
        /\ Idle
        /\ Serve(Request(http, TRUE, 1, "aadata",
                         [NoVars EXCEPT !.update = update,
                                        !.iDisplayStart = PyStr(<<"0">>),
                                        !.iDisplayLength = limit,
                                        !.sEcho = PyStr(<<"1">>),
                                        !.delete = PyStr(<<"1">>)]))

Next ==
    \/ Dispatch
    \/ PageLoad
    \/ ListUpdate
    \/ ListDelete
    \/ GridUpdate
    \/ GridSearch
    \/ GridDelete
    \/ Respond

Spec == Init /\ [][Next]_vars

----------------------------------------------------------------------------
(* SpecPage: the default page-load of every page configuration *)

\* widget.get("colspan", 1) of the configured widgets
Colspans == {1, 2}

\* The known widget types and one profile() has no renderer for
WidgetTypes == KnownTypes \cup {"chart"}

PageConfigs ==
    UNION {[1..n -> {Widget(type, colspan, Unset, "") :
                        type \in WidgetTypes, colspan \in Colspans}] :
           n \in 0..MaxWidgets}

InitPage ==
    /\ widgets \in PageConfigs
    /\ \E debug \in BOOLEAN : current = Settings(debug, FALSE, 0, TRUE)
    /\ db = SomeRecords
    /\ r = NoRequest
    /\ output = NoOutput
    /\ calls = <<>>
    /\ attr = NoAttr
    /\ last = NoLast

\* A default page-load, by GET or by POST
ComposePage ==
    \E http \in {"GET", "POST"} :
        /\ Idle
        /\ Serve(Request(http, TRUE, 1, "html", NoVars))

NextPage == ComposePage \/ Respond

SpecPage == InitPage /\ [][NextPage]_vars

----------------------------------------------------------------------------
(* SpecContext: a list widget with a context, on the profile of each parent *)

InitContext ==
    /\ \E context \in {"location", "organisation"} :
          widgets = <<Widget("datalist", 1, Unset, context)>>
    /\ current = Settings(FALSE, FALSE, 0, TRUE)
    /\ \E path \in Paths : db = {Record(1, path, <<"x">>)}
    /\ r = NoRequest
    /\ output = NoOutput
    /\ calls = <<>>
    /\ attr = NoAttr
    /\ last = NoLast

ProfileOf ==
    \E id \in LocationIds :
        /\ Idle
        /\ Serve(Request("GET", TRUE, id, "html", NoVars))

NextContext == ProfileOf \/ Respond

SpecContext == InitContext /\ [][NextContext]_vars

----------------------------------------------------------------------------
(* SpecPopup: the page-load of a list or grid with a create-popup link *)

\* S3FieldSelector(sel) == id
Eq(sel, id) == [op |-> "eq", sel |-> sel, pats |-> <<>>, id |-> id]

\* The widget's "filter": none, one on the selector of the "organisation"
\* context, one on the record id
WidgetFilters == {NoFilter, Eq("(organisation)", 3), Eq("id", 1)}

\* The widget's "default": none, or a field=value pair
WidgetDefaults == {<<>>, <<"refresh", "=", "stale">>, <<"status", "=", "2">>}

PopupWidgets ==
    {[Widget(type, 1, Unset, context) EXCEPT !.filter = filter, !.default = default,
                                             !.insert = insert, !.multiple = multiple] :
        type \in {"datalist", "datatable"}, context \in {"", "organisation"},
        filter \in WidgetFilters, default \in WidgetDefaults,
        insert \in BOOLEAN, multiple \in BOOLEAN}

InitPopup ==
    /\ \E w \in PopupWidgets : widgets = <<w, Widget("datatable", 1, Unset, "")>>
    /\ \E permit_create \in BOOLEAN : current = Settings(FALSE, FALSE, 0, permit_create)
    /\ db \in {SomeRecords, {}}
    /\ r = NoRequest
    /\ output = NoOutput
    /\ calls = <<>>
    /\ attr = NoAttr
    /\ last = NoLast

\* A default page-load of the profile of record 1
LoadPopups ==
    \E http \in {"GET", "POST"} :
        /\ Idle
        /\ Serve(Request(http, TRUE, 1, "html", NoVars))

NextPopup == LoadPopups \/ Respond

SpecPopup == InitPopup /\ [][NextPopup]_vars

----------------------------------------------------------------------------
(* SpecTwice: page-loads of the same page, one after the other *)

\* widget.get("actions"): none, or the row actions of the grid
WidgetActions == {<<>>, <<"edit">>}

ListsAndGrids ==
    UNION {[1..n -> {[Widget(type, 1, Unset, "") EXCEPT !.actions = actions] :
                        type \in {"datalist", "datatable"},
                        actions \in WidgetActions}] :
           n \in 1..MaxWidgets}

\* The controller passes no dtargs, or a dtargs dict without row actions
InitTwice ==
    /\ widgets \in ListsAndGrids
    /\ current = Settings(FALSE, FALSE, 0, TRUE)
    /\ db = SomeRecords
    /\ r = NoRequest
    /\ output = NoOutput
    /\ calls = <<>>
    /\ attr \in {NoAttr, AttrWith(NoDtargs)}
    /\ last = NoLast

\* A default page-load with the controller attributes of the one before
ComposeAgain ==
    \E http \in {"GET", "POST"} :
        /\ Idle
        /\ Serve(Request(http, TRUE, 1, "html", NoVars))

\* The response is sent and kept for comparison
RespondPage ==
    /\ ~Idle
    /\ last' = [r |-> r, output |-> output]
    /\ r' = NoRequest
    /\ output' = NoOutput
    /\ calls' = <<>>
    /\ UNCHANGED <<widgets, current, db, attr>>

NextTwice == ComposeAgain \/ RespondPage

SpecTwice == InitTwice /\ [][NextTwice]_vars

----------------------------------------------------------------------------
(* Properties of the default page-load (SpecPage) *)

\* The widgets of the rows, first row first
RECURSIVE Flatten(_)
Flatten(rows) == IF rows = <<>> THEN <<>> ELSE Head(rows) \o Flatten(Tail(rows))

\* The positions (widget["index"]) of the widgets of the rows
RECURSIVE Indices(_)
Indices(ws) == IF ws = <<>> THEN <<>> ELSE <<Head(ws).index>> \o Indices(Tail(ws))

RowIndices(rows) == Indices(Flatten(rows))

\* 0, 1, ..., n - 1
RECURSIVE Positions(_)
Positions(n) == IF n = 0 THEN <<>> ELSE Append(Positions(n - 1), n - 1)

\* The positions of the configured widgets of a known type, in order
RECURSIVE KnownIndices(_)
KnownIndices(ws) ==
    IF ws = <<>> THEN <<>>
    ELSE KnownIndices(SubSeq(ws, 1, Len(ws) - 1))
         \o (IF ws[Len(ws)].type \in KnownTypes THEN <<Len(ws) - 1>> ELSE <<>>)

RowColspan(row) ==
    IF Len(row) = 1 THEN widgets[row[1].index + 1].colspan
    ELSE widgets[row[1].index + 1].colspan + widgets[row[2].index + 1].colspan

PageReturned == r.representation = "html" /\ output.status = "ok" /\ output.kind = "page"

AllKnown == \A i \in 1..Len(widgets) : widgets[i].type \in KnownTypes

\* C1: row packing of a full page loses no widget and keeps the order: the
\* concatenation of the emitted rows is the sequence of the configured
\* widgets, a trailing colspan-1 widget in the open row included.
C1_RowsHoldEveryWidget ==
    (PageReturned /\ AllKnown) =>
        RowIndices(output.rows) = Positions(Len(widgets))

\* C2: every emitted row of a full page holds 1 or 2 widgets whose colspans
\* sum to at most 2; a colspan-2 widget is alone in its row, in the position
\* right after the widgets before it (the open row was closed first).
C2_RowsFitTwoColumns ==
    PageReturned =>
        /\ \A k \in 1..Len(output.rows) :
              /\ Len(output.rows[k]) \in {1, 2}
              /\ RowColspan(output.rows[k]) <= 2
        /\ \A k \in 1..Len(RowIndices(output.rows)) :
              k > 1 => RowIndices(output.rows)[k - 1] < RowIndices(output.rows)[k]

\* A colspan-1 widget was left in the open row when a colspan-2 widget came:
\* both were emitted, each alone in its row
C2_Witness ==
    /\ PageReturned
    /\ \E k \in 1..Len(output.rows) :
          /\ k > 1
          /\ Len(output.rows[k]) = 1
          /\ widgets[output.rows[k][1].index + 1].colspan = 2
          /\ Len(output.rows[k - 1]) = 1
          /\ widgets[output.rows[k - 1][1].index + 1].colspan = 1

\* C6: with debug off, a full page over a widget list that holds widgets of
\* an unknown type is returned, and its rows hold exactly the widgets of a
\* known type, in configuration order.
C6_UnknownTypeOnlyOmitted ==
    (r.representation = "html" /\ ~current.debug /\ ~AllKnown) =>
        /\ output.status = "ok"
        /\ RowIndices(output.rows) = KnownIndices(widgets)

----------------------------------------------------------------------------
(* Properties of the context filter (SpecContext) *)

\* The ids of the records whose location path has the parent as a segment
UnderParent(data, parent) ==
    {rec.id : rec \in {x \in data : \E k \in 1..Len(x.path) : x.path[k] = parent}}

\* C3: for the "location" context with parent id P the resolved filter
\* selects a record exactly when P is one of the segments of its path; P
\* occurring only inside another id of the path does not match.
C3_LocationContextMatchesSegments ==
    (PageReturned /\ widgets[1].context = "location") =>
        /\ Len(calls) > 0
        /\ calls[1].op = "datalist"
        /\ calls[1].context.op = "like"
        /\ calls[1].ids = UnderParent(db, r.id)

\* The parent 3 is the last segment of a path whose other ids, 13 and 31,
\* hold the digit 3: the record is selected
C3_Witness ==
    /\ PageReturned
    /\ widgets[1].context = "location"
    /\ r.id = 3
    /\ db = {Record(1, <<13, 31, 3>>, <<"x">>)}
    /\ calls[1].ids = {1}

----------------------------------------------------------------------------
(* Properties of the fragment requests and of pagination (Spec) *)

\* The request is an Ajax request that reaches profile()
FragmentRequest(representation) ==
    /\ r.representation = representation
    /\ r.record
    /\ r.http \in {"GET", "POST", "DELETE"}

\* The "update" parameter is missing, or no number
NoWidgetIndex ==
    \/ r.get_vars.update.t = "None"
    \/ r.get_vars.update.t = "Str" /\ r.get_vars.update.s \in {<<>>, <<"x">>}

\* The "update" parameter is the position of a widget of the page
AddressedIndexes ==
    {i \in 0..(Len(widgets) - 1) :
        r.get_vars.update.t = "Str" /\ r.get_vars.update.s = DecStr(i)}

\* C4: a list-fragment request whose "update" parameter is missing or not
\* numeric returns an empty fragment, not an error, and queries nothing.
C4_ListFragmentWithoutIndexIsEmpty ==
    (FragmentRequest("dl") /\ NoWidgetIndex) =>
        /\ output.status = "ok"
        /\ output.item.kind = "empty"
        /\ calls = <<>>

\* C5: a grid-fragment request whose "update" parameter is missing or not
\* numeric completes without an error and queries nothing.
C5_GridFragmentWithoutIndexCompletes ==
    (FragmentRequest("aadata") /\ NoWidgetIndex) =>
        /\ output.status = "ok"
        /\ calls = <<>>

\* widget.get("pagesize", 4) of the widget at position i
ListPageSize(i) == IF widgets[i + 1].pagesize = Unset THEN 4 ELSE widgets[i + 1].pagesize

\* An Ajax-update of a whole datalist: GET, a widget addressed, no "record"
ListPageRequest ==
    /\ FragmentRequest("dl")
    /\ r.http = "GET"
    /\ r.get_vars.record.t = "None"
    /\ AddressedIndexes # {}

\* The one resource query of the request asked for the window (start, limit)
ListQueried(start, limit) ==
    /\ output.status = "ok"
    /\ Len(calls) = 1
    /\ calls[1].op = "datalist"
    /\ calls[1].index \in AddressedIndexes
    /\ calls[1].start = start
    /\ calls[1].limit = limit

EchoWellFormed ==
    PyIntOf(IF Truthy(r.get_vars.sEcho) THEN r.get_vars.sEcho ELSE PyInt(0)).exc = ""

\* C8: malformed pagination parameters are never errors: whatever start /
\* limit (list) or iDisplayStart / iDisplayLength (grid) are, absent ones
\* included, no request fails in the pagination (int() raising).
C8_PaginationNeverRaises ==
    EchoWellFormed => output.exc \notin {"TypeError", "ValueError"}

\* C9: list pagination with "limit" absent: an Ajax-update without "record"
\* queries the window (None, None) whatever "start" is; a full-page load
\* queries (0, pagesize).
C9_ListWindowWithoutLimit ==
    /\ (ListPageRequest /\ r.get_vars.limit.t = "None") => ListQueried(PyNone, PyNone)
    /\ (r.representation = "html" /\ r.record /\ r.http \in {"GET", "POST", "DELETE"}
        /\ r.get_vars.limit.t = "None") =>
            /\ Len(calls) > 0
            /\ calls[1].op = "datalist"
            /\ calls[1].start = PyInt(0)
            /\ calls[1].limit = PyInt(ListPageSize(0))

\* An Ajax-update with start = "1" and no limit queried (None, None)
C9_Witness ==
    /\ ListPageRequest
    /\ r.get_vars.limit.t = "None"
    /\ r.get_vars.start = PyStr(<<"1">>)
    /\ ListQueried(PyNone, PyNone)

\* The limit parameter of the grid pagination is "none", in any letter case
GridLimitNone ==
    \/ /\ r.representation = "aadata"
       /\ r.get_vars.iDisplayLength.t = "Str"
       /\ Lower(r.get_vars.iDisplayLength.s) = <<"n", "o", "n", "e">>
    \/ /\ r.representation = "html"
       /\ r.get_vars.limit.t = "Str"
       /\ Lower(r.get_vars.limit.s) = <<"n", "o", "n", "e">>

\* C10: with the grid limit parameter "none" the limit of the resource query
\* is None (unbounded), on the Ajax data pull and on the interactive load,
\* with server-side pagination too.
C10_GridLimitNoneIsUnbounded ==
    GridLimitNone =>
        \A k \in 1..Len(calls) : calls[k].op = "datatable" => calls[k].limit = PyNone

----------------------------------------------------------------------------
(* Properties of the grid's Ajax data pull (Spec) *)

\* C11: the window of the grid pagination has an offset that is an integer
\* or None and a limit that is an integer or None: no resource query of the
\* grid renderer gets the string of a request parameter as start or limit.
C11_GridWindowIsIntOrNull ==
    \A k \in 1..Len(calls) :
        calls[k].op = "datatable" =>
            /\ calls[k].start.t \in {"None", "Int"}
            /\ calls[k].limit.t \in {"None", "Int"}

\* A data pull that addresses a widget, with a numeric window
GridPull ==
    /\ FragmentRequest("aadata")
    /\ r.http = "GET"
    /\ AddressedIndexes # {}
    /\ r.get_vars.iDisplayStart.t = "Str" /\ IsDigits(r.get_vars.iDisplayStart.s)
    /\ r.get_vars.iDisplayLength.t = "Str" => IsDigits(r.get_vars.iDisplayLength.s)

\* The records whose name is the search string
Named(data, name) == {rec.id : rec \in {x \in data : x.name = name}}

\* C12: the counts of the grid payload: with a search filter, the total is
\* the number of records before the search filter and the displayed count
\* and rows are those after it; without one the two counts are equal.
C12_GridCountsAroundSearch ==
    (GridPull /\ EchoWellFormed) =>
        /\ output.status = "ok"
        /\ output.item.kind = "json"
        /\ IF Truthy(r.get_vars.sSearch)
           THEN /\ output.item.total = Cardinality(db)
                /\ output.item.display = Cardinality(Named(db, r.get_vars.sSearch.s))
                /\ output.item.ids = Named(db, r.get_vars.sSearch.s)
           ELSE output.item.total = output.item.display

\* A search that matches none of three records: total 3, displayed 0, no rows
C12_Witness ==
    /\ GridPull
    /\ r.get_vars.sSearch = PyStr(<<"z">>)
    /\ db = SomeRecords
    /\ output.item.kind = "json"
    /\ output.item.total = 3
    /\ output.item.display = 0
    /\ output.item.ids = {}

\* C13: the echo of the grid payload is the request's echo parameter as it
\* was sent, for every value of it; the payload is produced, populated or
\* empty, never an error.
C13_EchoRoundTrips ==
    (GridPull /\ r.get_vars.sEcho.t = "Str") =>
        /\ output.status = "ok"
        /\ output.item.kind = "json"
        /\ DecStr(output.item.echo) = r.get_vars.sEcho.s

----------------------------------------------------------------------------
(* Properties of the Ajax-delete (Spec) *)

\* The delete operation ran, and nothing else: no listing query, no fragment
\* and no data payload
OnlyDeleted ==
    /\ output.status = "ok"
    /\ output.item.kind = "deleted"
    /\ Len(calls) = 1
    /\ calls[1].op = "delete"

\* The request was rejected as method-not-allowed before any collaborator
\* was called
MethodNotAllowed == output.exc = "HTTP405" /\ calls = <<>>

\* C18: on the list-fragment representation with a widget addressed, a
\* DELETE or POST request with a "delete" parameter runs the delete and
\* returns without listing query or fragment; a DELETE or POST request
\* without it, and a request of a method other than GET, POST and DELETE,
\* is rejected as method-not-allowed with no delete and no listing query
\* (a GET request is the Ajax-update of the list).
C18_ListDeleteOrMethodNotAllowed ==
    (r.representation = "dl" /\ AddressedIndexes # {}) =>
        /\ (r.record /\ r.http \in {"DELETE", "POST"}
               /\ r.get_vars.delete.t # "None") => OnlyDeleted
        /\ (r.record /\ r.http \in {"DELETE", "POST"}
               /\ r.get_vars.delete.t = "None") => MethodNotAllowed
        /\ r.http \notin {"GET", "POST", "DELETE"} => MethodNotAllowed

\* C19: a DELETE or POST request with a "delete" parameter that addresses a
\* grid widget on the grid's Ajax representation runs the delete and returns
\* without a fragment or a data payload, as the list renderer does.
C19_GridDeleteShortCircuits ==
    (FragmentRequest("aadata") /\ r.http \in {"DELETE", "POST"}
        /\ r.get_vars.delete.t # "None"
        /\ \E i \in AddressedIndexes : widgets[i + 1].type = "datatable") =>
            OnlyDeleted

----------------------------------------------------------------------------
(* Properties of the create-popup link (SpecPopup) *)

\* The configuration of the rendered widget w
ConfigOf(w) == widgets[w.index + 1]

\* The query variables of the context filter, then those of the widget's
\* filter: on a common key the widget filter's value stands
ContextThenFilter(cfg) ==
    DictUpdate(SerializeUrl(WidgetContext(r, cfg)), SerializeUrl(cfg.filter))

\* C14: the query variables of a create link hold the variables of the
\* context filter and of the widget's static filter, merged context first
\* and static filter second; a widget with a static filter has that filter's
\* variables in its link.
C14_CreateLinkHoldsBothFilters ==
    r.representation = "html" =>
        \A k \in 1..Len(Flatten(output.rows)) :
            Flatten(output.rows)[k].create # "" =>
                ContextThenFilter(ConfigOf(Flatten(output.rows)[k]))
                    \subseteq Flatten(output.rows)[k].vars

\* All the values the link has for the key "refresh" are the listing id
RefreshIsListId(w, listid) ==
    /\ [k |-> <<"refresh">>, v |-> listid] \in w.vars
    /\ \A e \in w.vars : e.k = <<"refresh">> => e.v = listid

\* C15: every create link that is produced has refresh = the listing id of
\* its widget, also when the widget's default pair or a filter key is named
\* "refresh".
C15_RefreshIsTheListingId ==
    r.representation = "html" =>
        \A k \in 1..Len(Flatten(output.rows)) :
            Flatten(output.rows)[k].create # "" =>
                RefreshIsListId(Flatten(output.rows)[k],
                                <<"profile-list", "-", "org_resource", "-">>
                                \o DecStr(k - 1))

\* The first widget has the default "refresh=stale" and its link was
\* produced, with refresh = profile-list-org_resource-0
C15_Witness ==
    /\ PageReturned
    /\ widgets[1].default = <<"refresh", "=", "stale">>
    /\ Len(Flatten(output.rows)) = 2
    /\ Flatten(output.rows)[1].create = "link"
    /\ [k |-> <<"refresh">>, v |-> <<"profile-list", "-", "org_resource", "-", "0">>]
           \in Flatten(output.rows)[1].vars

\* The first widget is a list with multiple = False that may be created in
SingleList ==
    /\ r.representation = "html"
    /\ widgets[1].type = "datalist"
    /\ ~widgets[1].multiple
    /\ widgets[1].insert
    /\ current.permit_create

\* C16: for a list widget with multiple = False and creation permitted the
\* page is rendered and the widget's create link is produced, hidden when
\* the list has a record and visible when it has none.
C16_SingleListLinkHiddenOrVisible ==
    SingleList =>
        /\ output.status = "ok"
        /\ Len(Flatten(output.rows)) > 0
        /\ Flatten(output.rows)[1].index = 0
        /\ Flatten(output.rows)[1].create =
              IF Flatten(output.rows)[1].total >= 1 THEN "hidden" ELSE "visible"

\* C17: a create link is produced only for a widget that allows insertion
\* and with the "create" permission granted; when the first widget's
\* insertion is off or the permission is denied its link is empty and the
\* page is returned with both widgets.
C17_NoLinkWithoutPermission ==
    r.representation = "html" =>
        /\ \A k \in 1..Len(Flatten(output.rows)) :
              Flatten(output.rows)[k].create # "" =>
                  /\ ConfigOf(Flatten(output.rows)[k]).insert
                  /\ current.permit_create
        /\ (~widgets[1].insert \/ ~current.permit_create) =>
              /\ output.status = "ok"
              /\ RowIndices(output.rows) = <<0, 1>>
              /\ Flatten(output.rows)[1].create = ""

\* The permission is denied: the page has both widgets, none with a link
C17_Witness ==
    /\ PageReturned
    /\ ~current.permit_create
    /\ widgets[1].insert
    /\ widgets[1].type = "datalist"
    /\ ~widgets[1].multiple
    /\ RowIndices(output.rows) = <<0, 1>>
    /\ Flatten(output.rows)[1].create = ""
    /\ Flatten(output.rows)[2].create = ""

----------------------------------------------------------------------------
(* Properties of repeated page-loads (SpecTwice) *)

\* C20: a page-load with the request, the configuration and the data of the
\* page-load before it returns the same rows, in the same order and with
\* the same content, and assigns each widget the same index: nothing the
\* first wrote into the widget configuration or the controller attributes
\* changes the second.
C20_PageLoadIsIdempotent ==
    (r.representation = "html" /\ last.r = r) =>
        /\ output = last.output
        /\ widgets = Indexed(widgets)

\* The widget as its renderer renders it when nothing was rendered before
\* it, with controller attributes whose dtargs (if any) hold nothing
RenderedAlone(cfg) == RenderWidget(r, cfg, current, db, widgets, NoAttr).w

\* C21: in the first page-load of a page, each list or grid widget is
\* rendered as it is rendered alone: the widgets rendered before it change
\* neither its resource query nor what is passed to its fragment renderer,
\* the dtargs of the controller attributes included.
C21_RenderingIgnoresEarlierWidgets ==
    (r.representation = "html" /\ last = NoLast) =>
        \A k \in 1..Len(Flatten(output.rows)) :
            Flatten(output.rows)[k] = RenderedAlone(ConfigOf(Flatten(output.rows)[k]))

----------------------------------------------------------------------------
(* The "more" affordance *)

\* widget.get("pagesize", ...) with the default of the widget's renderer
PageSizeOf(cfg) == WidgetGet(cfg.pagesize, IF cfg.type = "datalist" THEN 4 ELSE 10)

\* The rendered list or grid has the "more" affordance exactly when it has
\* more records than its page size, a list's affordance showing how many
MoreWhenBeyondPage(w) ==
    w.kind \in {"datalist", "datatable"} =>
        /\ (w.more # 0) <=> (w.total > PageSizeOf(ConfigOf(w)))
        /\ (w.kind = "datalist" /\ w.more # 0) =>
               w.more = w.total - PageSizeOf(ConfigOf(w))

\* C22: on a full-page render, a list or grid widget gets the "more"
\* affordance exactly when its total count is greater than its page size,
\* and the list's affordance shows total count - page size remaining records
C22_MoreExactlyWhenBeyondPage ==
    PageReturned =>
        \A k \in 1..Len(Flatten(output.rows)) : MoreWhenBeyondPage(Flatten(output.rows)[k])

----------------------------------------------------------------------------
(* SpecFilter: Ajax requests to a list and a grid with a context and a filter *)

\* The "record" parameter: absent, empty, or the id of a record
RecordVals == {PyNone} \cup {PyStr(str) : str \in {<<>>, <<"1">>, <<"2">>}}

InitFilter ==
    /\ \E context \in {"", "organisation"}, filter \in {NoFilter, Eq("id", 2), Eq("(organisation)", 3)} :
          widgets = <<[Widget("datalist", 1, Unset, context) EXCEPT !.filter = filter],
                      [Widget("datatable", 1, Unset, context) EXCEPT !.filter = filter]>>
    /\ current = Settings(FALSE, FALSE, 0, TRUE)
    /\ db = SomeRecords
    /\ r = NoRequest
    /\ output = NoOutput
    /\ calls = <<>>
    /\ attr = NoAttr
    /\ last = NoLast

\* An Ajax-update of a datalist, of one record or of a page of records
ListRefresh ==
    \E id \in {1, 3}, update \in {PyStr(<<"0">>), PyStr(<<"1">>)}, record \in RecordVals,
       start \in {PyNone, PyStr(<<"1">>)}, limit \in {PyNone, PyStr(<<"1">>)} :
        /\ Idle
        /\ Serve(Request("GET", TRUE, id, "dl",
                         [NoVars EXCEPT !.update = update, !.record = record,
                                        !.start = start, !.limit = limit]))

\* An Ajax-delete of a datalist, with and without a "record"
ListRemove ==
    \E id \in {1, 3}, record \in RecordVals :
        /\ Idle
        /\ Serve(Request("POST", TRUE, id, "dl",
                         [NoVars EXCEPT !.update = PyStr(<<"0">>), !.record = record,
                                        !.delete = PyStr(<<"1">>)]))

\* An Ajax data pull of a datatable, with and without a search
GridRefresh ==
    \E id \in {1, 3}, record \in RecordVals, limit \in {PyNone, PyStr(<<"1">>)},
       sSearch \in {PyNone, PyStr(<<"x">>)} :
        /\ Idle
        /\ Serve(Request("GET", TRUE, id, "aadata",
                         [NoVars EXCEPT !.update = PyStr(<<"1">>), !.record = record,
                                        !.iDisplayStart = PyStr(<<"0">>),
                                        !.iDisplayLength = limit,
                                        !.sEcho = PyStr(<<"1">>), !.sSearch = sSearch]))

NextFilter == ListRefresh \/ ListRemove \/ GridRefresh \/ Respond

SpecFilter == InitFilter /\ [][NextFilter]_vars

\* The records the widget's context and its filter allow on this profile
StructuralIds(cfg) == Select(db, <<WidgetContext(r, cfg), cfg.filter>>)

\* A query, count or delete of the resource stays within the context and the
\* widget's filter
CallWithinFilters(c) ==
    c.op \in {"datalist", "datatable", "count", "delete"} =>
        c.ids \subseteq StructuralIds(widgets[c.index + 1])

\* The query of a single-record update asks for that record alone, in the
\* window (0, 1)
CallOfOneRecord(c) ==
    (r.representation = "dl" /\ r.get_vars.record.t # "None" /\ c.op = "datalist") =>
        /\ c.ids \subseteq {RecordFilter(r.get_vars.record).id}
        /\ c.start = PyInt(0)
        /\ c.limit = PyInt(1)

\* C23: in every list-fragment or grid-fragment request the resource query
\* is constrained by the widget's context filter and its static filter; a
\* "record" parameter only adds id == record, with the window (0, 1)
\* whatever start and limit are, so a single-record refresh never returns a
\* record outside the context and the static filter
C23_ClientParamsKeepStructuralFilter ==
    r.representation \in {"dl", "aadata"} =>
        /\ \A k \in 1..Len(calls) : CallWithinFilters(calls[k]) /\ CallOfOneRecord(calls[k])
        /\ output.item.index # Unset =>
               output.item.ids \subseteq StructuralIds(ConfigOf(output.item))

\* A single-record refresh of record 2 on the profile of organisation 1,
\* whose context does not hold record 2: nothing is returned
C23_Witness ==
    /\ r.representation = "dl" /\ r.id = 1
    /\ r.get_vars.record = PyStr(<<"2">>)
    /\ r.get_vars.start # PyNone
    /\ output.status = "ok" /\ output.item.kind = "datalist-data"
    /\ widgets[1].context = "organisation" /\ widgets[1].filter = NoFilter
    /\ output.item.index = 0 /\ output.item.ids = {}
    /\ Len(calls) = 1 /\ calls[1].limit = PyInt(1)

----------------------------------------------------------------------------
(* SpecMap: pages of lists, grids and maps, loaded and then refreshed *)

\* widget["tablename"] of the widgets with a listing
Tablenames == {"org_resource", "org_office"}

\* A list of a table, shown on the map or not, with a label or without
MapList(tablename, show_on_map, label) ==
    [Widget("datalist", 1, Unset, "") EXCEPT
        !.tablename = tablename, !.show_on_map = show_on_map, !.label = label]

\* The widgets of the pages: lists of either table, a list kept off the map,
\* a list without a label, a grid, a map
MapWidgets ==
    {MapList(tablename, TRUE, PyStr(<<"Resources">>)) : tablename \in Tablenames}
    \cup {MapList("org_resource", FALSE, PyStr(<<"Resources">>)),
          MapList("org_resource", TRUE, PyNone),
          Widget("datatable", 1, Unset, ""), Widget("map", 1, Unset, "")}

InitMap ==
    /\ widgets \in UNION {[1..n -> MapWidgets] : n \in 1..MaxWidgets}
    /\ current = Settings(FALSE, FALSE, 0, TRUE)
    /\ db = SomeRecords
    /\ r = NoRequest
    /\ output = NoOutput
    /\ calls = <<>>
    /\ attr = NoAttr
    /\ last = NoLast

\* A default page-load
LoadMap ==
    /\ Idle
    /\ Serve(Request("GET", TRUE, 1, "html", NoVars))

\* An Ajax-update of the first or the second widget
RefreshListing ==
    \E representation \in {"dl", "aadata"}, update \in {PyStr(<<"0">>), PyStr(<<"1">>)} :
        /\ Idle
        /\ Serve(Request("GET", TRUE, 1, representation,
                         [NoVars EXCEPT !.update = update, !.sEcho = PyStr(<<"1">>)]))

\* The response is sent; that of a page-load is kept for comparison
RespondMap ==
    /\ ~Idle
    /\ last' = IF r.representation = "html" THEN [r |-> r, output |-> output] ELSE last
    /\ r' = NoRequest
    /\ output' = NoOutput
    /\ calls' = <<>>
    /\ UNCHANGED <<widgets, current, db, attr>>

NextMap == LoadMap \/ RefreshListing \/ RespondMap

SpecMap == InitMap /\ [][NextMap]_vars

\* The listing ids of a response with the index of the widget each one is
\* of: those of the widgets of the page, of the layers of its maps, and of
\* the fragment
ListingIdsOf(out) ==
    {[index |-> Flatten(out.rows)[k].index, id |-> Flatten(out.rows)[k].listid] :
        k \in {j \in 1..Len(Flatten(out.rows)) : Flatten(out.rows)[j].listid # <<>>}}
    \cup UNION {{[index |-> Flatten(out.rows)[k].layers[l].index,
                  id |-> Flatten(out.rows)[k].layers[l].id] :
                    l \in 1..Len(Flatten(out.rows)[k].layers)} :
                k \in 1..Len(Flatten(out.rows))}
    \cup (IF out.item.listid # <<>>
          THEN {[index |-> out.item.index, id |-> out.item.listid]} ELSE {})

\* The listing ids of this response and of the last page-load
ListingIds == ListingIdsOf(output) \cup ListingIdsOf(last.output)

\* C24: the listing id of a widget is a function of its resource type and
\* its index only: each id is made of the two, distinct widgets of the page
\* have distinct ids, and the one widget has the same id on the page-load,
\* on its Ajax refresh and as the id of the layer the map builds of it
C24_ListingIdOfTableAndIndex ==
    /\ \A x \in ListingIds :
          x.id = <<"profile-list", "-", widgets[x.index + 1].tablename, "-">>
                 \o DecStr(x.index)
    /\ \A x, y \in ListingIds : (x.index = y.index) <=> (x.id = y.id)

\* The Ajax refresh of the first widget, a list, after a page-load that
\* rendered it next to a map with its layer; a second list of the same table
\* has a layer too
C24_Witness ==
    /\ r.representation = "dl" /\ output.item.kind = "datalist-data"
    /\ output.item.index = 0 /\ output.item.listid # <<>>
    /\ last.output.status = "ok" /\ Len(last.output.rows) = 1
    /\ last.output.rows[1][1].kind = "datalist" /\ last.output.rows[1][1].index = 0
    /\ last.output.rows[1][2].kind = "map"
    /\ Len(last.output.rows[1][2].layers) = 2
    /\ widgets[3].tablename = widgets[1].tablename
    /\ Cardinality(ListingIds) = 2

----------------------------------------------------------------------------
(* The layers of the map *)

\* The widget at this position is a list that is not kept off the map
ShownList(index) ==
    widgets[index + 1].type = "datalist" /\ widgets[index + 1].show_on_map # FALSE

\* The map's layers are those of the shown lists of the page, in the order
\* of the configuration
LayersOfShownLists(w) ==
    w.kind = "map" =>
        Indices(w.layers) = SelectSeq(Positions(Len(widgets)), ShownList)

\* The listing queries made on the widget at this position
ListingQueries(index) ==
    {k \in 1..Len(calls) :
        calls[k].index = index /\ calls[k].op \in {"datalist", "datatable"}}

\* C28: the map has exactly one layer for each list widget of the page whose
\* show_on_map is not false, in configuration order, and none for a widget
\* of another kind; building them runs no listing query: the page-load
\* queries each list or grid once, for its own rendering, and a map never
C28_MapLayersAreTheShownLists ==
    PageReturned =>
        /\ \A k \in 1..Len(Flatten(output.rows)) :
              LayersOfShownLists(Flatten(output.rows)[k])
        /\ \A i \in 0..(Len(widgets) - 1) :
              /\ Cardinality(ListingQueries(i)) <= 1
              /\ widgets[i + 1].type = "map" => \A k \in 1..Len(calls) : calls[k].index # i

\* A page of a map and two lists of different tables: the map is rendered
\* with the layers of both lists, in their order, and both lists are queried
C28_Witness ==
    /\ PageReturned /\ Len(widgets) = 3
    /\ widgets[1].type = "map" /\ widgets[2].type = "datalist" /\ widgets[3].type = "datalist"
    /\ widgets[2].tablename # widgets[3].tablename
    /\ Len(output.rows) = 1 /\ output.rows[1][1].kind = "map"
    /\ Indices(output.rows[1][1].layers) = <<1, 2>>
    /\ Len(calls) >= 2

----------------------------------------------------------------------------
(* The entry point *)

\* Nothing was rendered and no collaborator was called
NothingDone == calls = <<>> /\ output.rows = <<>> /\ output.item = NoItem

\* C25: the profile is composed only for GET, POST or DELETE with a target
\* record; GET, POST or DELETE without one is redirected to the collection
\* view, and any other method is rejected as method-not-allowed with or
\* without a record; in both cases no widget is rendered and no resource
\* query or delete is made
C25_EntryDispatch ==
    ~Idle =>
        /\ (r.http \in {"GET", "POST", "DELETE"} /\ ~r.record) =>
               (output.status = "redirect" /\ NothingDone)
        /\ r.http \notin {"GET", "POST", "DELETE"} =>
               (output.status = "error" /\ output.exc = "HTTP405" /\ NothingDone)
        /\ (output.status = "ok" \/ ~NothingDone) =>
               (r.http \in {"GET", "POST", "DELETE"} /\ r.record)

\* A PUT of a list fragment with a target record, rejected
C25_Witness ==
    /\ r.http = "PUT" /\ r.record /\ r.representation = "dl"
    /\ output.exc = "HTTP405" /\ NothingDone
    /\ db # {}

----------------------------------------------------------------------------
(* Addressing a widget by its index *)

\* The Ajax URL the page-load writes into the widget at position i
PageUrlOf(i) ==
    RenderWidget(Request("GET", TRUE, r.id, "html", NoVars), widgets[i + 1],
                 current, db, widgets, NoAttr).w.ajax

\* The request is the GET of that URL (a data table sends its echo with it)
FollowsUrl(url) ==
    /\ r.http = "GET"
    /\ r.representation = url.representation
    /\ r.get_vars \in {[NoVars EXCEPT !.update = PyStr(url.update)],
                       [NoVars EXCEPT !.update = PyStr(url.update),
                                      !.sEcho = PyStr(<<"1">>)]}

\* The k-th widget of the page is the widget configured at the position it
\* has as index, and the Ajax URL of a list or grid carries that position
\* as "update"
PageWidgetAddressed(k) ==
    /\ Flatten(output.rows)[k].index \in 0..(Len(widgets) - 1)
    /\ Flatten(output.rows)[k].type = ConfigOf(Flatten(output.rows)[k]).type
    /\ Flatten(output.rows)[k].kind \in {"datalist", "datatable"} =>
           Flatten(output.rows)[k].ajax.update = DecStr(Flatten(output.rows)[k].index)

\* The fragment request with update = i concerns the widget at position i
\* and no other, and renders it when it is the GET of the widget's URL
FragmentAddressed(i) ==
    /\ \A k \in 1..Len(calls) : calls[k].index = i
    /\ output.status = "ok" =>
           (output.item.index = i /\ output.item.type = widgets[i + 1].type)
    /\ FollowsUrl(PageUrlOf(i)) => output.status = "ok"

\* C26: on every request that reaches the profile each widget's index is its
\* position in the configuration; the Ajax URL the page-load generates for
\* the list or grid at position i carries update=i; and a fragment request
\* with update=i, 0 <= i < n, renders the widget at position i and touches
\* no other widget
C26_AddressingRoundTrips ==
    (~Idle /\ r.record /\ r.http \in {"GET", "POST", "DELETE"}) =>
        /\ \A i \in 1..Len(widgets) : widgets[i].index = i - 1
        /\ PageReturned =>
               \A k \in 1..Len(Flatten(output.rows)) : PageWidgetAddressed(k)
        /\ r.representation \in {"dl", "aadata"} =>
               \A i \in AddressedIndexes : FragmentAddressed(i)

\* The GET of the grid's URL, aadata with update=1, returns the payload of
\* the widget at position 1 from one query of that widget
C26_Witness ==
    /\ FragmentRequest("aadata") /\ AddressedIndexes = {1}
    /\ FollowsUrl(PageUrlOf(1))
    /\ output.status = "ok" /\ output.item.kind = "json" /\ output.item.index = 1
    /\ Len(calls) = 1 /\ calls[1].index = 1

----------------------------------------------------------------------------
(* The grid's window on the interactive load *)

\* The "limit" parameter is absent, zero, or no number (and not "none")
GridLimitDefaulted ==
    \/ r.get_vars.limit.t = "None"
    \/ /\ r.get_vars.limit.t = "Str"
       /\ Lower(r.get_vars.limit.s) # <<"n", "o", "n", "e">>
       /\ IsDigits(r.get_vars.limit.s) => DigitsValue(r.get_vars.limit.s) = 0

\* The global display-length setting if set, else the widget's page size,
\* else 10
DisplayLengthOf(cfg) ==
    IF current.dataTable_iDisplayLength # 0 THEN current.dataTable_iDisplayLength
    ELSE IF cfg.pagesize \notin {Unset, 0} THEN cfg.pagesize
    ELSE 10

\* The query of the grid has no offset and the default limit
GridDefaultWindow(c) ==
    /\ c.start = PyNone
    /\ c.limit = IF current.no_sspag THEN PyInt(0)
                 ELSE PyInt(2 * DisplayLengthOf(widgets[c.index + 1]))

\* C27: on the interactive initial load with the limit parameter absent,
\* zero or non-numeric, the grid's resource query gets the limit
\* 2 x displayLength with server-side pagination and the zero default
\* without it, displayLength being the global setting if set, else the
\* widget's pageSize, else 10 (also for a pageSize of 0); the offset is null
C27_GridDefaultWindow ==
    (r.representation = "html" /\ r.record /\ r.http \in {"GET", "POST", "DELETE"}
     /\ GridLimitDefaulted) =>
        \E k \in 1..Len(calls) :
            calls[k].op = "datatable" /\ GridDefaultWindow(calls[k])

----------------------------------------------------------------------------
(* Fragment requests that address no widget, or one of another kind *)

\* The "update" parameter is a number that is no position of the page
IndexOutOfRange ==
    /\ r.get_vars.update.t = "Str"
    /\ PyIntOf(r.get_vars.update).exc = ""
    /\ PyIntOf(r.get_vars.update).n \notin 0..(Len(widgets) - 1)

\* C29: a fragment request whose numeric widget index is outside 0..n-1,
\* negative or beyond the last widget, renders no widget and runs no
\* resource query or delete on any widget of the page
C29_IndexOutOfRangeTouchesNothing ==
    ((FragmentRequest("dl") \/ FragmentRequest("aadata")) /\ IndexOutOfRange) =>
        /\ calls = <<>>
        /\ output.item.kind \in {"", "empty"}

\* The renderer of the representation: _datalist for dl, _datatable for aadata
KindOf(representation) == IF representation = "dl" THEN "datalist" ELSE "datatable"

\* C30: a list-fragment request is served by the list renderer only when the
\* addressed widget is a list, a grid-fragment request by the grid renderer
\* only when it is a grid: a widget of another kind is never rendered,
\* queried or deleted from through the list or grid renderer
C30_FragmentRenderedByDeclaredKind ==
    (FragmentRequest("dl") \/ FragmentRequest("aadata")) =>
        /\ \A k \in 1..Len(calls) :
              widgets[calls[k].index + 1].type = KindOf(r.representation)
        /\ output.item.index # Unset =>
              ConfigOf(output.item).type = KindOf(r.representation)
====
